---- MODULE Spec2Model ----
(***************************************************************************)
(* vasgotools: main, the `work` command (generateWorkCommand,              *)
(* addGitSubmodules) and the `app` / `lib` commands                        *)
(* (generateModuleCommand).                                                *)
(*                                                                         *)
(* A path is a sequence of components.  An absolute path starts with the   *)
(* component "/", the relative path "." is <<".">>.  The directory tree    *)
(* below the root folder is a function from nodes (component sequences     *)
(* relative to the root) to kinds "file" / "dir".  Every external process  *)
(* (cmd.Run) is a Start step that records the command line and working     *)
(* directory, and an Exit step that draws the exit status.                 *)
(***************************************************************************)
EXTENDS Integers, Sequences, FiniteSets, TLC

VARIABLES
    command,        \* os.Args[1], "<none>" when len(os.Args) < 2
    args,           \* os.Args[2:] of the invocation
    goos,           \* runtime.GOOS
    pc,             \* position inside generateWorkCommand
    folderPath,     \* *folderPath
    noGit, noCode,  \* results of parseOptionalFlags
    goModFolders,   \* the slice goModFolders
    fs,             \* files and directories below the root folder
    fs0,            \* the tree as it was when the command started
    cmds,           \* every external command started so far, in order
    running,        \* TRUE while the last command of cmds has not exited
    walkQ,          \* addGitSubmodules: entries of the walk not yet visited
    err,            \* the error message printed, "none" if none
    exitCode,       \* process exit status, -1 while the process is alive
    folder,         \* generateModuleCommand: folder
    fullName,       \* generateModuleCommand: fullName
    noMain,         \* generateModuleCommand: noMain
    codeStatus      \* exit status of `code .` in the editor script, -1 if not run

\* the variables of generateModuleCommand alone
modVars == << folder, fullName, noMain >>

vars == << command, args, goos, pc, folderPath, noGit, noCode, goModFolders,
           fs, fs0, cmds, running, walkQ, err, exitCode, modVars,
           codeStatus >>

----------------------------------------------------------------------------
(* Bounds *)

\* number of go.mod / .git entries placed in the initial tree
MaxMarkers == 2

----------------------------------------------------------------------------
(* path/filepath *)

Dot == <<".">>

IsAbs(p) == Len(p) > 0 /\ p[1] = "/"

\* filepath.Join(p, name) for a clean p and a single component
Join(p, name) == IF p = Dot THEN <<name>> ELSE Append(p, name)

\* filepath.Join(p, n1, n2, ...) for a node n below p
JoinNode(p, n) == IF n = <<>> THEN p ELSE IF p = Dot THEN n ELSE p \o n

\* filepath.Dir
Dir(p) ==
    IF Len(p) <= 1 THEN (IF IsAbs(p) THEN p ELSE Dot)
    ELSE SubSeq(p, 1, Len(p) - 1)

\* filepath.Base, os.FileInfo.Name() of an entry reached as p
Base(p) == p[Len(p)]

Min(a, b) == IF a < b THEN a ELSE b

CommonLen(b, t) ==
    CHOOSE k \in 0..Min(Len(b), Len(t)) :
        /\ \A j \in 1..k : b[j] = t[j]
        /\ (k < Min(Len(b), Len(t)) => b[k + 1] # t[k + 1])

NoDot(p) == IF p = Dot THEN <<>> ELSE p

\* filepath.Rel reports an error when one path is absolute and the other is
\* not, or when it would have to climb out of a ".." of the base
RelFails(base, targ) ==
    LET b == NoDot(base)
        t == NoDot(targ)
        k == CommonLen(b, t)
    IN  \/ IsAbs(b) # IsAbs(t)
        \/ (k < Len(b) /\ b[k + 1] = "..")

\* filepath.Rel(base, targ)
Rel(base, targ) ==
    LET b == NoDot(base)
        t == NoDot(targ)
        k == CommonLen(b, t)
        r == [i \in 1..(Len(b) - k) |-> ".."] \o SubSeq(t, k + 1, Len(t))
    IN  IF r = <<>> THEN Dot ELSE r

----------------------------------------------------------------------------
(* The directory tree *)

\* sort.Strings order of the entry names that occur (byte order)
NameOrder ==
    << ".git", ".gitmodules", "app1", "ext", "go.mod", "go.work",
       "go.work.sum", "lib1", "open_vscode.bat", "open_vscode.sh" >>

Rank(name) == CHOOSE i \in 1..Len(NameOrder) : NameOrder[i] = name

Children(tree, n) ==
    {c \in DOMAIN tree : Len(c) = Len(n) + 1 /\ SubSeq(c, 1, Len(n)) = n}

IsDirNode(tree, n) == n = <<>> \/ (n \in DOMAIN tree /\ tree[n] = "dir")

RECURSIVE SortNodes(_)
\* the nodes of S (siblings) as readDirNames returns them: sorted by name
SortNodes(S) ==
    IF S = {} THEN <<>>
    ELSE LET m == CHOOSE x \in S :
                    \A y \in S : Rank(Base(x)) <= Rank(Base(y))
         IN  <<m>> \o SortNodes(S \ {m})

RECURSIVE WalkNodes(_, _)
RECURSIVE WalkList(_, _)
\* filepath.Walk: the entry itself, then, for a directory, its entries in
\* lexical order, each walked the same way (symbolic links are not followed)
WalkNodes(tree, n) ==
    <<n>> \o (IF IsDirNode(tree, n)
              THEN WalkList(tree, SortNodes(Children(tree, n)))
              ELSE <<>>)
WalkList(tree, ns) ==
    IF ns = <<>> THEN <<>>
    ELSE WalkNodes(tree, Head(ns)) \o WalkList(tree, Tail(ns))

\* os.Stat(filepath.Join(root, name)) returns no error
Exists(tree, n) == n \in DOMAIN tree

\* the tree without node n
Without(tree, n) == [x \in (DOMAIN tree) \ {n} |-> tree[x]]

\* the tree with node n of kind k (created or overwritten)
With(tree, n, k) == [x \in (DOMAIN tree) \cup {n} |-> IF x = n THEN k ELSE tree[x]]

----------------------------------------------------------------------------
(* Inputs: initial trees and command lines *)

SkeletonDirs == { <<>>, <<"app1">>, <<"ext">>, <<"ext", "lib1">> }

MarkerKinds ==
    { [name |-> "go.mod", kind |-> "file"],
      [name |-> "go.mod", kind |-> "dir"],
      [name |-> ".git",   kind |-> "dir"] }

Markers == { [dir |-> d, name |-> k.name, kind |-> k.kind] :
                d \in SkeletonDirs, k \in MarkerKinds }

MarkerSets ==
    { M \in SUBSET Markers :
        /\ Cardinality(M) <= MaxMarkers
        /\ \A a, b \in M : (a.dir = b.dir /\ a.name = b.name) => a = b }

Prefixes(d) == { SubSeq(d, 1, i) : i \in 1..Len(d) }

\* the tree holding the markers M, the directories leading to them and,
\* if asked for, go.work and go.work.sum in the root
TreeOf(M, work, sum) ==
    LET dirs  == UNION { Prefixes(m.dir) : m \in M }
        marks == { Append(m.dir, m.name) : m \in M }
        top   == (IF work THEN { <<"go.work">> } ELSE {})
                     \cup (IF sum THEN { <<"go.work.sum">> } ELSE {})
    IN  [ n \in dirs \cup marks \cup top |->
            IF n \in marks
            THEN (CHOOSE m \in M : Append(m.dir, m.name) = n).kind
            ELSE IF n \in top THEN "file" ELSE "dir" ]

Trees == { TreeOf(M, w, s) : M \in MarkerSets, w \in BOOLEAN, s \in BOOLEAN }

Cwd == << "/", "home" >>

FlagPath == << "--path" >>
NoGitArg == << "nogit" >>
NoCodeArg == << "nocode" >>

PathParts ==
    { <<>>,
      << FlagPath, << "ws" >> >>,
      << FlagPath, << "/", "home", "go.mod" >> >> }

Switches ==
    { <<>>, << NoGitArg >>, << NoCodeArg >>, << NoGitArg, NoCodeArg >> }

WorkArgs ==
    { p \o s : p \in PathParts, s \in Switches }
        \cup { << FlagPath >>, << NoCodeArg, NoGitArg >>,
               << NoGitArg, FlagPath, << "ws" >> >> }

\* os.Args[1] other than work, app and lib; "<none>" is its absence
HelpCommands == { "help", "--help", "-h" }
VersionCommands == { "version", "--version", "-v" }
OtherCommands == HelpCommands \cup VersionCommands \cup { "<none>", "build" }

FlagModulePrefix == << "--module-prefix" >>
NoMainArg == << "nomain" >>

\* values of --module-prefix: the shortcuts, the default word and a custom one
PrefixValues == { << "vas" >>, << "slb" >>, << "none" >>, << "github.com/myorg/" >> }

ModuleNames == { << "myapp" >>, << "mylib" >> }

\* arguments of app / lib: without a name, with flags before the name (where
\* flag parsing sees them), with flags after the name (as the README and the
\* usage text write them), and with the switches after the name
ModuleArgs ==
    { <<>>, << FlagPath, << "/", "projects" >> >>, << FlagPath >> }
      \cup { f \o n \o s :
                f \in { <<>>, << FlagPath, << "/", "projects" >> >>,
                        << FlagPath, << "ws" >> >> },
                n \in { << x >> : x \in ModuleNames },
                s \in Switches \cup { << NoMainArg >>, << NoCodeArg, NoGitArg >> } }
      \cup { << FlagModulePrefix, v, n >> : v \in PrefixValues, n \in ModuleNames }
      \cup { << n, FlagModulePrefix, v >> : v \in PrefixValues, n \in ModuleNames }
      \cup { << n, FlagPath, << "/", "projects" >> >> : n \in ModuleNames }

----------------------------------------------------------------------------
(* flag parsing *)

IsFlag(tok) == tok = FlagPath

RECURSIVE FlagParse(_, _)
\* flag.FlagSet.Parse for the set holding only -path: flags are consumed up
\* to the first non-flag argument; a flag without its value is an error
FlagParse(rest, path) ==
    IF rest = <<>> \/ ~IsFlag(rest[1])
    THEN [ok |-> TRUE, path |-> path, rest |-> rest]
    ELSE IF Len(rest) < 2
         THEN [ok |-> FALSE, path |-> path, rest |-> rest]
         ELSE FlagParse(SubSeq(rest, 3, Len(rest)), rest[2])

\* parseOptionalFlags that looks at the first argument only
ParseOptionalFlags_firstOnly(rest) ==
    [ noGit  |-> Len(rest) > 0 /\ rest[1] = NoGitArg,
      noCode |-> Len(rest) > 0 /\ rest[1] = NoCodeArg ]

\* parseOptionalFlags
ParseOptionalFlags(rest) ==
    [ noGit  |-> \E i \in 1..Len(rest) : rest[i] = NoGitArg,
      noCode |-> \E i \in 1..Len(rest) : rest[i] = NoCodeArg ]

\* setDefaultFolderPath: "" (here <<>>) becomes the working directory
SetDefaultFolderPath(p) == IF p = <<>> THEN Cwd ELSE p

\* where the root folder really is
AbsRoot == IF IsAbs(folderPath) THEN folderPath ELSE Cwd \o folderPath

----------------------------------------------------------------------------
(* Initial state *)

Init ==
    /\ \/ command = "work" /\ args \in WorkArgs /\ fs \in Trees
       \/ command \in { "app", "lib" } /\ args \in ModuleArgs /\ fs = << >>
       \/ command \in OtherCommands /\ args = <<>> /\ fs = << >>
    /\ goos \in { "linux", "windows" }
    /\ fs0 = fs
    /\ pc = "main"
    /\ folder = <<>>
    /\ fullName = <<>>
    /\ noMain = FALSE
    /\ folderPath = <<>>
    /\ noGit = FALSE
    /\ noCode = FALSE
    /\ goModFolders = <<>>
    /\ cmds = <<>>
    /\ running = FALSE
    /\ walkQ = <<>>
    /\ err = "none"
    /\ exitCode = -1
    /\ codeStatus = -1

\* a printed error followed by return
Fail(msg) ==
    /\ pc' = "done"
    /\ err' = msg

\* exec.Command(prog, a...) with cmd.Dir = dir, then cmd.Run() up to the start
\* of the child
StartCmd(prog, a, dir, waitPc) ==
    /\ cmds' = Append(cmds, [prog |-> prog, args |-> a, dir |-> dir])
    /\ running' = TRUE
    /\ pc' = waitPc

----------------------------------------------------------------------------
(* main *)

\* Main whose default case exits with status 0
Main_unknownOk ==
    /\ pc = "main"
    /\ IF command = "work" THEN pc' = "parse" /\ UNCHANGED exitCode
       ELSE IF command \in { "app", "lib" }
            THEN pc' = "modParse" /\ UNCHANGED exitCode
       ELSE pc' = "exit" /\ exitCode' = 0
    /\ UNCHANGED << command, modVars, codeStatus, args, goos, folderPath, noGit, noCode,
                    goModFolders, fs, fs0, cmds, running, walkQ, err >>

\* main: the switch on os.Args[1]
Main ==
    /\ pc = "main"
    /\ IF command = "work" THEN pc' = "parse" /\ UNCHANGED exitCode
       ELSE IF command \in { "app", "lib" }
            THEN pc' = "modParse" /\ UNCHANGED exitCode
       ELSE IF command \in HelpCommands \cup VersionCommands
            THEN pc' = "exit" /\ exitCode' = 0
       ELSE pc' = "exit" /\ exitCode' = 1
    /\ UNCHANGED << command, modVars, codeStatus, args, goos, folderPath, noGit, noCode,
                    goModFolders, fs, fs0, cmds, running, walkQ, err >>

----------------------------------------------------------------------------
(* generateWorkCommand *)

\* fs.Parse, parseOptionalFlags, setDefaultFolderPath
ParseArgs ==
    /\ pc = "parse"
    /\ LET r == FlagParse(args, <<>>)
       IN  IF ~r.ok
           THEN /\ pc' = "exit"
                /\ exitCode' = 2
                /\ err' = "flag"
                /\ UNCHANGED << folderPath, noGit, noCode >>
           ELSE /\ folderPath' = SetDefaultFolderPath(r.path)
                /\ noGit' = ParseOptionalFlags(r.rest).noGit
                /\ noCode' = ParseOptionalFlags(r.rest).noCode
                /\ pc' = "walk"
                /\ UNCHANGED << exitCode, err >>
    /\ UNCHANGED << command, modVars, codeStatus, args, goos, goModFolders, fs, fs0, cmds, running, walkQ >>

\* IsGoMod that takes the workspace descriptor for a module file as well
IsGoMod_orGoWork(p) == Base(p) \in { "go.mod", "go.work" }

\* the walk callback's test on one entry
IsGoMod(p) == Base(p) = "go.mod"

RECURSIVE Collect(_, _)
\* the callback over the visited entries, in order: the folders appended
Collect(root, ns) ==
    IF ns = <<>> THEN <<>>
    ELSE LET p == JoinNode(root, Head(ns))
         IN  (IF IsGoMod(p) THEN << Rel(root, Dir(p)) >> ELSE <<>>)
                 \o Collect(root, Tail(ns))

\* Discover that reports a failed walk and goes on with what it collected
Discover_goOn ==
    /\ pc = "walk"
    /\ LET order == WalkNodes(fs, <<>>)
       IN  \E failAt \in 0..Len(order) :
             /\ goModFolders' =
                   IF failAt = 0 THEN Collect(folderPath, order)
                   ELSE Collect(folderPath, SubSeq(order, 1, failAt - 1))
             /\ err' = IF failAt = 0 THEN err ELSE "Error walking the directory"
             /\ pc' = "rmWork"
    /\ UNCHANGED << command, modVars, codeStatus, args, goos, folderPath, noGit, noCode,
                    fs, fs0, cmds, running, walkQ, exitCode >>

\* filepath.Walk over the root folder; failAt > 0 is the entry whose lstat
\* or directory read fails
Discover ==
    /\ pc = "walk"
    /\ LET order == WalkNodes(fs, <<>>)
       IN  \E failAt \in 0..Len(order) :
             IF failAt = 0
             THEN /\ goModFolders' = Collect(folderPath, order)
                  /\ pc' = "rmWork"
                  /\ UNCHANGED err
             ELSE /\ goModFolders' =
                        Collect(folderPath, SubSeq(order, 1, failAt - 1))
                  /\ Fail("Error walking the directory")
    /\ UNCHANGED << command, modVars, codeStatus, args, goos, folderPath, noGit, noCode, fs, fs0, cmds,
                    running, walkQ, exitCode >>

GoWork == << "go.work" >>
GoWorkSum == << "go.work.sum" >>

\* RemoveGoWork that deletes go.work only when modules were found
RemoveGoWork_ifModules ==
    /\ pc = "rmWork"
    /\ IF Exists(fs, GoWork) /\ Len(goModFolders) > 0
       THEN \E ok \in BOOLEAN :
              IF ok
              THEN /\ fs' = Without(fs, GoWork)
                   /\ pc' = "rmSum"
                   /\ UNCHANGED err
              ELSE /\ Fail("Error deleting go.work file")
                   /\ UNCHANGED fs
       ELSE /\ pc' = "rmSum"
            /\ UNCHANGED << fs, err >>
    /\ UNCHANGED << command, modVars, codeStatus, args, goos, folderPath, noGit, noCode, goModFolders, fs0,
                    cmds, running, walkQ, exitCode >>

\* os.Stat, then os.Remove, of go.work
RemoveGoWork ==
    /\ pc = "rmWork"
    /\ IF Exists(fs, GoWork)
       THEN \E ok \in BOOLEAN :
              IF ok
              THEN /\ fs' = Without(fs, GoWork)
                   /\ pc' = "rmSum"
                   /\ UNCHANGED err
              ELSE /\ Fail("Error deleting go.work file")
                   /\ UNCHANGED fs
       ELSE /\ pc' = "rmSum"
            /\ UNCHANGED << fs, err >>
    /\ UNCHANGED << command, modVars, codeStatus, args, goos, folderPath, noGit, noCode, goModFolders, fs0,
                    cmds, running, walkQ, exitCode >>

\* RemoveGoWorkSum that leaves an existing go.work.sum in place
RemoveGoWorkSum_keep ==
    /\ pc = "rmSum"
    /\ pc' = "assemble"
    /\ UNCHANGED << command, modVars, codeStatus, args, goos, folderPath, noGit, noCode, goModFolders, fs,
                    fs0, cmds, running, walkQ, err, exitCode >>

\* os.Stat, then os.Remove, of go.work.sum
RemoveGoWorkSum ==
    /\ pc = "rmSum"
    /\ IF Exists(fs, GoWorkSum)
       THEN \E ok \in BOOLEAN :
              IF ok
              THEN /\ fs' = Without(fs, GoWorkSum)
                   /\ pc' = "assemble"
                   /\ UNCHANGED err
              ELSE /\ Fail("Error deleting go.work.sum file")
                   /\ UNCHANGED fs
       ELSE /\ pc' = "assemble"
            /\ UNCHANGED << fs, err >>
    /\ UNCHANGED << command, modVars, codeStatus, args, goos, folderPath, noGit, noCode, goModFolders, fs0,
                    cmds, running, walkQ, exitCode >>

\* GoWorkInitArgs that loses the first folder
GoWorkInitArgs_skipFirst(folders) == << <<"work">>, <<"init">> >> \o Tail(folders)

\* the argument list of `go work init`
GoWorkInitArgs(folders) == << <<"work">>, <<"init">> >> \o folders

\* len(goModFolders) > 0: go work init <folders...> is started in the root
StartGoWorkInit ==
    /\ pc = "assemble"
    /\ Len(goModFolders) > 0
    /\ StartCmd("go", GoWorkInitArgs(goModFolders), folderPath, "goWorkInit")
    /\ UNCHANGED << command, modVars, codeStatus, args, goos, folderPath, noGit, noCode, goModFolders, fs,
                    fs0, walkQ, err, exitCode >>

\* ExitGoWorkInit that goes on with the git stage
ExitGoWorkInit_toGit ==
    /\ pc = "goWorkInit"
    /\ running
    /\ running' = FALSE
    /\ \E ok \in BOOLEAN :
         IF ok
         THEN /\ fs' = With(fs, GoWork, "file")
              /\ pc' = "git"
              /\ UNCHANGED err
         ELSE /\ Fail("Error running 'go work init'")
              /\ UNCHANGED fs
    /\ UNCHANGED << command, modVars, codeStatus, args, goos, folderPath, noGit, noCode,
                    goModFolders, fs0, cmds, walkQ, exitCode >>

\* ExitGoWorkInit that reports the failure and goes on
ExitGoWorkInit_goOn ==
    /\ pc = "goWorkInit"
    /\ running
    /\ running' = FALSE
    /\ \E ok \in BOOLEAN :
         /\ fs' = IF ok THEN With(fs, GoWork, "file") ELSE fs
         /\ err' = IF ok THEN err ELSE "Error running 'go work init'"
         /\ pc' = "code"
    /\ UNCHANGED << command, modVars, codeStatus, args, goos, folderPath, noGit, noCode, goModFolders, fs0,
                    cmds, walkQ, exitCode >>

\* cmd.Run() of go work init returns
ExitGoWorkInit ==
    /\ pc = "goWorkInit"
    /\ running
    /\ running' = FALSE
    /\ \E ok \in BOOLEAN :
         IF ok
         THEN /\ fs' = With(fs, GoWork, "file")
              /\ pc' = "code"
              /\ UNCHANGED err
         ELSE /\ Fail("Error running 'go work init'")
              /\ UNCHANGED fs
    /\ UNCHANGED << command, modVars, codeStatus, args, goos, folderPath, noGit, noCode, goModFolders, fs0,
                    cmds, walkQ, exitCode >>

\* NoModulesFound that treats the empty list as a failure
NoModulesFound_fatal ==
    /\ pc = "assemble"
    /\ Len(goModFolders) = 0
    /\ Fail("No subfolders with go.mod found")
    /\ UNCHANGED << command, modVars, codeStatus, args, goos, folderPath, noGit, noCode, goModFolders, fs,
                    fs0, cmds, running, walkQ, exitCode >>

\* NoModulesFound that leaves an empty go.work behind
NoModulesFound_touch ==
    /\ pc = "assemble"
    /\ Len(goModFolders) = 0
    /\ fs' = With(fs, GoWork, "file")
    /\ pc' = "code"
    /\ UNCHANGED << command, modVars, codeStatus, args, goos, folderPath, noGit, noCode, goModFolders, fs0,
                    cmds, running, walkQ, err, exitCode >>

\* len(goModFolders) = 0: "No subfolders with go.mod found"
NoModulesFound ==
    /\ pc = "assemble"
    /\ Len(goModFolders) = 0
    /\ pc' = "code"
    /\ UNCHANGED << command, modVars, codeStatus, args, goos, folderPath, noGit, noCode, goModFolders, fs,
                    fs0, cmds, running, walkQ, err, exitCode >>

----------------------------------------------------------------------------
(* Editor launch *)

OpenVSCodeBatchFile == "open_vscode.bat"
OpenVSCodeShellFile == "open_vscode.sh"

\* !noCode is false: "Creation and execution of open_vscode.bat skipped."
SkipCode ==
    /\ pc = "code"
    /\ noCode
    /\ pc' = "git"
    /\ UNCHANGED << command, modVars, codeStatus, args, goos, folderPath, noGit, noCode, goModFolders, fs,
                    fs0, cmds, running, walkQ, err, exitCode >>

\* the tree after os.WriteFile of the file `name` in the root, if it worked
Written(tree, name, ok) == IF ok THEN With(tree, << name >>, "file") ELSE tree

\* createOpenVSCodeFile: both files are written, the errors are joined
CreateOpenVSCodeFile ==
    /\ pc = "code"
    /\ ~noCode
    /\ \E ok1, ok2 \in BOOLEAN :
         /\ fs' = Written(Written(fs, OpenVSCodeBatchFile, ok1),
                          OpenVSCodeShellFile, ok2)
         /\ IF ok1 /\ ok2
            THEN pc' = "execCode" /\ UNCHANGED err
            ELSE Fail("Error creating open_vscode file")
    /\ UNCHANGED << command, modVars, codeStatus, args, goos, folderPath, noGit, noCode, goModFolders, fs0,
                    cmds, running, walkQ, exitCode >>

\* the command line of executeOpenVSCodeFile
OpenVSCodeCmd(os, root) ==
    IF os = "windows"
    THEN [prog |-> "cmd",
          args |-> << <<"/C">>, Join(root, OpenVSCodeBatchFile) >>]
    ELSE [prog |-> "bash",
          args |-> << Join(root, OpenVSCodeShellFile) >>]

\* executeOpenVSCodeFile up to the start of the child
StartOpenVSCode ==
    /\ pc = "execCode"
    /\ LET c == OpenVSCodeCmd(goos, folderPath)
       IN  StartCmd(c.prog, c.args, folderPath, "codeRunning")
    /\ UNCHANGED << command, modVars, codeStatus, args, goos, folderPath, noGit, noCode, goModFolders, fs,
                    fs0, walkQ, err, exitCode >>

\* the file a child running in directory dir opens for the path p
ChildResolves(dir, p) ==
    LET d == IF IsAbs(dir) THEN dir ELSE Cwd \o dir
    IN  IF IsAbs(p) THEN p ELSE d \o p

\* the script handed to the interpreter by the last command started
ScriptArg == LET c == cmds[Len(cmds)] IN c.args[Len(c.args)]

\* the interpreter finds the generated script
ScriptFound ==
    LET c == cmds[Len(cmds)]
        f == ChildResolves(c.dir, ScriptArg)
    IN  \E n \in DOMAIN fs : Len(n) = 1 /\ fs[n] = "file" /\ f = AbsRoot \o n

\* the exit statuses `code .` may end with
CodeStatuses == { 0, 1 }

\* the status of a script holding "code ." alone
ShellScriptStatus_plain(s) == s

\* open_vscode.sh, "code . || exit 0": the status of the script when
\* `code .` ends with status s: `exit 0` runs when s is not 0, otherwise the
\* script ends with the status of its last command
ShellScriptStatus(s) == IF s # 0 THEN 0 ELSE s

\* open_vscode.bat, "code . | exit 0": the status of a pipeline is that of
\* its last command, `exit 0`
BatchScriptStatus(s) == 0

ScriptStatus(os, s) ==
    IF os = "windows" THEN BatchScriptStatus(s) ELSE ShellScriptStatus(s)

\* cmd.Run() of the editor script returns: it fails when the interpreter
\* cannot be started, cannot open the script, or the script ends with a
\* status other than 0
ExitOpenVSCode ==
    /\ pc = "codeRunning"
    /\ running
    /\ running' = FALSE
    /\ \E started \in BOOLEAN, s \in CodeStatuses :
         IF started /\ ScriptFound
         THEN /\ codeStatus' = s
              /\ IF ScriptStatus(goos, s) = 0
                 THEN pc' = "git" /\ UNCHANGED err
                 ELSE Fail("Error executing open_vscode file")
         ELSE /\ UNCHANGED codeStatus
              /\ Fail("Error executing open_vscode file")
    /\ UNCHANGED << command, modVars, args, goos, folderPath, noGit, noCode, goModFolders, fs,
                    fs0, cmds, walkQ, exitCode >>

----------------------------------------------------------------------------
(* Git *)

\* !noGit is false: "Git repository initialization skipped."
SkipGit ==
    /\ pc = "git"
    /\ noGit
    /\ pc' = "done"
    /\ UNCHANGED << command, modVars, codeStatus, args, goos, folderPath, noGit, noCode, goModFolders, fs,
                    fs0, cmds, running, walkQ, err, exitCode >>

\* initializeGitRepository up to the start of the child
StartGitInit ==
    /\ pc = "git"
    /\ ~noGit
    /\ StartCmd("git", << <<"init">> >>, folderPath, "gitInit")
    /\ UNCHANGED << command, modVars, codeStatus, args, goos, folderPath, noGit, noCode, goModFolders, fs,
                    fs0, walkQ, err, exitCode >>

\* ExitGitInit that removes the generated go.work when git init fails
ExitGitInit_rollback ==
    /\ pc = "gitInit"
    /\ running
    /\ running' = FALSE
    /\ \E ok \in BOOLEAN :
         IF ok
         THEN /\ fs' = With(fs, << ".git" >>, "dir")
              /\ pc' = "addGitSubmodules"
              /\ UNCHANGED err
         ELSE /\ Fail("Error initializing Git repository")
              /\ fs' = Without(fs, GoWork)
    /\ UNCHANGED << command, modVars, codeStatus, args, goos, folderPath, noGit, noCode,
                    goModFolders, fs0, cmds, walkQ, exitCode >>

\* cmd.Run() of git init returns
ExitGitInit ==
    /\ pc = "gitInit"
    /\ running
    /\ running' = FALSE
    /\ \E ok \in BOOLEAN :
         IF ok
         THEN /\ fs' = With(fs, << ".git" >>, "dir")
              /\ pc' = "addGitSubmodules"
              /\ UNCHANGED err
         ELSE /\ Fail("Error initializing Git repository")
              /\ UNCHANGED fs
    /\ UNCHANGED << command, modVars, codeStatus, args, goos, folderPath, noGit, noCode, goModFolders, fs0,
                    cmds, walkQ, exitCode >>

\* addGitSubmodules: filepath.Walk starts on the root
BeginSubmoduleWalk ==
    /\ pc = "addGitSubmodules"
    /\ walkQ' = WalkNodes(fs, <<>>)
    /\ pc' = "subWalk"
    /\ UNCHANGED << command, modVars, codeStatus, args, goos, folderPath, noGit, noCode, goModFolders, fs,
                    fs0, cmds, running, err, exitCode >>

\* IsSubmodule without the test relativePath == "."
IsSubmodule_noRootSkip(tree, root, n) ==
    LET p == JoinNode(root, n)
    IN  /\ p # root
        /\ IsDirNode(tree, n)
        /\ Base(p) = ".git"
        /\ ~RelFails(root, Dir(p))

\* the callback of addGitSubmodules reaches exec.Command for the entry n
IsSubmodule(tree, root, n) ==
    LET p == JoinNode(root, n)
    IN  /\ p # root
        /\ IsDirNode(tree, n)
        /\ Base(p) = ".git"
        /\ ~RelFails(root, Dir(p))
        /\ Rel(root, Dir(p)) # Dot

\* the callback returns the error of filepath.Rel for the entry n
RelErrorAt(tree, root, n) ==
    LET p == JoinNode(root, n)
    IN  /\ p # root
        /\ IsDirNode(tree, n)
        /\ Base(p) = ".git"
        /\ RelFails(root, Dir(p))

\* the arguments of git submodule add for the entry n
SubmoduleArgs(root, n) ==
    LET submodulePath == Dir(JoinNode(root, n))
    IN  << <<"submodule">>, <<"add">>, submodulePath,
           Rel(root, submodulePath) >>

\* index of the first entry of q the callback does not pass over, 0 if none
NextStop(tree, root, q) ==
    IF \E i \in 1..Len(q) :
          IsSubmodule(tree, root, q[i]) \/ RelErrorAt(tree, root, q[i])
    THEN CHOOSE i \in 1..Len(q) :
            /\ IsSubmodule(tree, root, q[i]) \/ RelErrorAt(tree, root, q[i])
            /\ \A j \in 1..(i - 1) :
                  ~(IsSubmodule(tree, root, q[j]) \/ RelErrorAt(tree, root, q[j]))
    ELSE 0

\* the walk reaches the next nested .git directory: git submodule add
StartSubmoduleAdd ==
    /\ pc = "subWalk"
    /\ LET i == NextStop(fs, folderPath, walkQ)
       IN  /\ i > 0
           /\ IsSubmodule(fs, folderPath, walkQ[i])
           /\ StartCmd("git", SubmoduleArgs(folderPath, walkQ[i]), folderPath,
                       "submoduleAdd")
           /\ walkQ' = SubSeq(walkQ, i + 1, Len(walkQ))
    /\ UNCHANGED << command, modVars, codeStatus, args, goos, folderPath, noGit, noCode, goModFolders, fs,
                    fs0, err, exitCode >>

\* ExitSubmoduleAdd that reports the failure and goes on with the walk
ExitSubmoduleAdd_goOn ==
    /\ pc = "submoduleAdd"
    /\ running
    /\ running' = FALSE
    /\ \E ok \in BOOLEAN :
         /\ fs' = IF ok THEN With(fs, << ".gitmodules" >>, "file") ELSE fs
         /\ err' = IF ok THEN err ELSE "Error adding Git submodules"
         /\ pc' = "subWalk"
    /\ UNCHANGED << command, modVars, codeStatus, args, goos, folderPath, noGit, noCode, goModFolders, fs0,
                    cmds, walkQ, exitCode >>

\* cmd.Run() of git submodule add returns
ExitSubmoduleAdd ==
    /\ pc = "submoduleAdd"
    /\ running
    /\ running' = FALSE
    /\ \E ok \in BOOLEAN :
         IF ok
         THEN /\ fs' = With(fs, << ".gitmodules" >>, "file")
              /\ pc' = "subWalk"
              /\ UNCHANGED err
         ELSE /\ Fail("Error adding Git submodules")
              /\ UNCHANGED fs
    /\ UNCHANGED << command, modVars, codeStatus, args, goos, folderPath, noGit, noCode, goModFolders, fs0,
                    cmds, walkQ, exitCode >>

\* the walk ends with an error: an entry cannot be read, or filepath.Rel fails
SubmoduleWalkError ==
    /\ pc = "subWalk"
    /\ walkQ # <<>>
    /\ Fail("Error adding Git submodules")
    /\ UNCHANGED << command, modVars, codeStatus, args, goos, folderPath, noGit, noCode, goModFolders, fs,
                    fs0, cmds, running, walkQ, exitCode >>

\* the walk visits the remaining entries and returns nil: git add . starts
StartGitAdd ==
    /\ pc = "subWalk"
    /\ NextStop(fs, folderPath, walkQ) = 0
    /\ walkQ' = <<>>
    /\ StartCmd("git", << <<"add">>, <<".">> >>, folderPath, "gitAdd")
    /\ UNCHANGED << command, modVars, codeStatus, args, goos, folderPath, noGit, noCode, goModFolders, fs,
                    fs0, err, exitCode >>

\* ExitGitAdd that reports the failure and goes on with the commit
ExitGitAdd_goOn ==
    /\ pc = "gitAdd"
    /\ running
    /\ running' = FALSE
    /\ \E ok \in BOOLEAN :
         /\ err' = IF ok THEN err ELSE "Error adding files to git"
         /\ pc' = "commit"
    /\ UNCHANGED << command, modVars, codeStatus, args, goos, folderPath, noGit, noCode, goModFolders, fs,
                    fs0, cmds, walkQ, exitCode >>

\* cmdAdd.Run() returns; on success git commit -m init starts
ExitGitAdd ==
    /\ pc = "gitAdd"
    /\ running
    /\ running' = FALSE
    /\ \E ok \in BOOLEAN :
         IF ok THEN pc' = "commit" /\ UNCHANGED err
         ELSE Fail("Error adding files to git")
    /\ UNCHANGED << command, modVars, codeStatus, args, goos, folderPath, noGit, noCode, goModFolders, fs,
                    fs0, cmds, walkQ, exitCode >>

StartGitCommit ==
    /\ pc = "commit"
    /\ StartCmd("git", << <<"commit">>, <<"-m">>, <<"init">> >>, folderPath,
                "gitCommit")
    /\ UNCHANGED << command, modVars, codeStatus, args, goos, folderPath, noGit, noCode, goModFolders, fs,
                    fs0, walkQ, err, exitCode >>

\* cmdCommit.Run() returns
ExitGitCommit ==
    /\ pc = "gitCommit"
    /\ running
    /\ running' = FALSE
    /\ \E ok \in BOOLEAN :
         IF ok THEN pc' = "done" /\ UNCHANGED err
         ELSE Fail("Error committing files to git")
    /\ UNCHANGED << command, modVars, codeStatus, args, goos, folderPath, noGit, noCode, goModFolders, fs,
                    fs0, cmds, walkQ, exitCode >>

----------------------------------------------------------------------------
(* generateModuleCommand *)

ModulePrefixMbbVas == "github.com/muellerbbm-vas/"
ModulePrefixMbbmSlb == "github.com/mbbm-slb/"

IsModFlag(tok) == tok \in { FlagPath, FlagModulePrefix }

RECURSIVE ModFlagParse(_, _, _)
\* flag.FlagSet.Parse for the set holding -path and -module-prefix: flags
\* are consumed up to the first non-flag argument
ModFlagParse(rest, path, prefix) ==
    IF rest = <<>> \/ ~IsModFlag(rest[1])
    THEN [ok |-> TRUE, path |-> path, prefix |-> prefix, rest |-> rest]
    ELSE IF Len(rest) < 2
         THEN [ok |-> FALSE, path |-> path, prefix |-> prefix, rest |-> rest]
         ELSE IF rest[1] = FlagPath
              THEN ModFlagParse(SubSeq(rest, 3, Len(rest)), rest[2], prefix)
              ELSE ModFlagParse(SubSeq(rest, 3, Len(rest)), path, rest[2])

\* the module prefix for the value of -module-prefix; a string is the
\* sequence of its pieces, concatenation is \o
ModulePrefix(v) ==
    IF v # << "none" >>
    THEN IF v = << "vas" >> THEN << ModulePrefixMbbVas >>
         ELSE IF v = << "slb" >> THEN << ModulePrefixMbbmSlb >>
         ELSE v
    ELSE <<>>

\* noMain := isLibrary
NoMainOf(cmd, rest) == cmd = "lib"

\* ModParse without the test fs.NArg() < 1: a missing name is the empty name
ModParse_noNameCheck ==
    /\ pc = "modParse"
    /\ LET r == ModFlagParse(args, <<>>, << "none" >>)
           name == IF Len(r.rest) < 1 THEN << >> ELSE r.rest[1]
           rest == IF Len(r.rest) < 1 THEN << >> ELSE Tail(r.rest)
       IN  IF ~r.ok
           THEN /\ pc' = "exit"
                /\ exitCode' = 2
                /\ err' = "flag"
                /\ UNCHANGED << folderPath, noGit, noCode, modVars >>
           ELSE /\ noGit' = ParseOptionalFlags(rest).noGit
                /\ noCode' = ParseOptionalFlags(rest).noCode
                /\ noMain' = NoMainOf(command, rest)
                /\ folderPath' = SetDefaultFolderPath(r.path)
                /\ folder' = JoinNode(SetDefaultFolderPath(r.path), name)
                /\ fullName' = ModulePrefix(r.prefix) \o name
                /\ pc' = "mkdir"
                /\ UNCHANGED << exitCode, err >>
    /\ UNCHANGED << command, codeStatus, args, goos, goModFolders, fs, fs0, cmds, running,
                    walkQ >>

\* flag parsing, the name, the switches, the folder and the module name
ModParse ==
    /\ pc = "modParse"
    /\ LET r == ModFlagParse(args, <<>>, << "none" >>)
       IN  IF ~r.ok
           THEN /\ pc' = "exit"
                /\ exitCode' = 2
                /\ err' = "flag"
                /\ UNCHANGED << folderPath, noGit, noCode, modVars >>
           ELSE IF Len(r.rest) < 1
           THEN /\ pc' = "exit"
                /\ exitCode' = 1
                /\ err' = "Error: Name is required."
                /\ UNCHANGED << folderPath, noGit, noCode, modVars >>
           ELSE /\ noGit' = ParseOptionalFlags(Tail(r.rest)).noGit
                /\ noCode' = ParseOptionalFlags(Tail(r.rest)).noCode
                /\ noMain' = NoMainOf(command, Tail(r.rest))
                /\ folderPath' = SetDefaultFolderPath(r.path)
                /\ folder' = JoinNode(SetDefaultFolderPath(r.path), r.rest[1])
                /\ fullName' = ModulePrefix(r.prefix) \o r.rest[1]
                /\ pc' = "mkdir"
                /\ UNCHANGED << exitCode, err >>
    /\ UNCHANGED << command, codeStatus, args, goos, goModFolders, fs, fs0, cmds, running,
                    walkQ >>

\* the node of folder in the tree below *folderPath
FolderNode == Rel(folderPath, folder)

\* the tree after os.MkdirAll of the node n
WithDirs(tree, n) ==
    [ x \in (DOMAIN tree) \cup Prefixes(n) |->
        IF x \in DOMAIN tree THEN tree[x] ELSE "dir" ]

\* the tree after os.WriteFile of the files `names` in the directory d
WrittenIn(tree, d, names) ==
    [ x \in (DOMAIN tree) \cup { Append(d, f) : f \in names } |->
        IF x \in DOMAIN tree /\ x \notin { Append(d, f) : f \in names }
        THEN tree[x] ELSE "file" ]

\* os.MkdirAll(folder, 0o750)
Mkdir ==
    /\ pc = "mkdir"
    /\ \E ok \in BOOLEAN :
         IF ok /\ \A x \in Prefixes(FolderNode) : IsDirNode(WithDirs(fs, x), x)
         THEN /\ fs' = WithDirs(fs, FolderNode)
              /\ pc' = "goModInit"
              /\ UNCHANGED err
         ELSE /\ Fail("Error creating folder")
              /\ UNCHANGED fs
    /\ UNCHANGED << command, modVars, codeStatus, args, goos, folderPath, noGit, noCode,
                    goModFolders, fs0, cmds, running, walkQ, exitCode >>

\* the argument list of `go mod init`
GoModInitArgs(n) == << <<"mod">>, <<"init">>, n >>

\* go mod init <fullName> is started in the folder
StartGoModInit ==
    /\ pc = "goModInit"
    /\ StartCmd("go", GoModInitArgs(fullName), folder, "goModInitRun")
    /\ UNCHANGED << command, modVars, codeStatus, args, goos, folderPath, noGit, noCode,
                    goModFolders, fs, fs0, walkQ, err, exitCode >>

\* ExitGoModInit that reports the failure and goes on with the scripts
ExitGoModInit_goOn ==
    /\ pc = "goModInitRun"
    /\ running
    /\ running' = FALSE
    /\ \E ok \in BOOLEAN :
         /\ fs' = IF ok THEN WrittenIn(fs, FolderNode, { "go.mod" }) ELSE fs
         /\ err' = IF ok THEN err ELSE "Error running 'go mod init'"
         /\ pc' = "scripts"
    /\ UNCHANGED << command, modVars, codeStatus, args, goos, folderPath, noGit, noCode,
                    goModFolders, fs0, cmds, walkQ, exitCode >>

\* cmd.Run() of go mod init returns
ExitGoModInit ==
    /\ pc = "goModInitRun"
    /\ running
    /\ running' = FALSE
    /\ \E ok \in BOOLEAN :
         IF ok
         THEN /\ fs' = WrittenIn(fs, FolderNode, { "go.mod" })
              /\ pc' = "scripts"
              /\ UNCHANGED err
         ELSE /\ Fail("Error running 'go mod init'")
              /\ UNCHANGED fs
    /\ UNCHANGED << command, modVars, codeStatus, args, goos, folderPath, noGit, noCode,
                    goModFolders, fs0, cmds, walkQ, exitCode >>

\* the files createScripts writes: createBuildScript, createCrossBuildScript,
\* createGolangciWinYml, createGolangciYml
ScriptFiles ==
    { "build.bat", "build.sh", "cross-build.bat", "cross-build.sh",
      "golangci_win.yml", "golangci.yml" }

\* createScripts: every file is attempted, the errors are joined
CreateScripts ==
    /\ pc = "scripts"
    /\ \E done \in SUBSET ScriptFiles :
         /\ fs' = WrittenIn(fs, FolderNode, done)
         /\ IF done = ScriptFiles
            THEN pc' = "license" /\ UNCHANGED err
            ELSE Fail("Error creating analyze scripts")
    /\ UNCHANGED << command, modVars, codeStatus, args, goos, folderPath, noGit, noCode,
                    goModFolders, fs0, cmds, running, walkQ, exitCode >>

\* createLicenseFile
CreateLicenseFile ==
    /\ pc = "license"
    /\ \E ok \in BOOLEAN :
         IF ok
         THEN /\ fs' = WrittenIn(fs, FolderNode, { "LICENSE" })
              /\ pc' = "mainGo"
              /\ UNCHANGED err
         ELSE /\ Fail("Error creating LICENSE file")
              /\ UNCHANGED fs
    /\ UNCHANGED << command, modVars, codeStatus, args, goos, folderPath, noGit, noCode,
                    goModFolders, fs0, cmds, running, walkQ, exitCode >>

\* !noMain: os.WriteFile of main.go from the template
WriteMainGo ==
    /\ pc = "mainGo"
    /\ ~noMain
    /\ \E ok \in BOOLEAN :
         IF ok
         THEN /\ fs' = WrittenIn(fs, FolderNode, { "main.go" })
              /\ pc' = "modCode"
              /\ UNCHANGED err
         ELSE /\ Fail("Error writing main.go")
              /\ UNCHANGED fs
    /\ UNCHANGED << command, modVars, codeStatus, args, goos, folderPath, noGit, noCode,
                    goModFolders, fs0, cmds, running, walkQ, exitCode >>

\* noMain: "Creation of main.go skipped."
SkipMainGo ==
    /\ pc = "mainGo"
    /\ noMain
    /\ pc' = "modCode"
    /\ UNCHANGED << command, modVars, codeStatus, args, goos, folderPath, noGit, noCode,
                    goModFolders, fs, fs0, cmds, running, walkQ, err, exitCode >>

\* noCode: "Creation and execution of open_vscode.bat skipped."
ModSkipCode ==
    /\ pc = "modCode"
    /\ noCode
    /\ pc' = "modGit"
    /\ UNCHANGED << command, modVars, codeStatus, args, goos, folderPath, noGit, noCode,
                    goModFolders, fs, fs0, cmds, running, walkQ, err, exitCode >>

\* createOpenVSCodeFile(folder): both files are written, the errors are joined
ModCreateOpenVSCodeFile ==
    /\ pc = "modCode"
    /\ ~noCode
    /\ \E done \in SUBSET { OpenVSCodeBatchFile, OpenVSCodeShellFile } :
         /\ fs' = WrittenIn(fs, FolderNode, done)
         /\ IF done = { OpenVSCodeBatchFile, OpenVSCodeShellFile }
            THEN pc' = "modExecCode" /\ UNCHANGED err
            ELSE Fail("Error creating open_vscode file")
    /\ UNCHANGED << command, modVars, codeStatus, args, goos, folderPath, noGit, noCode,
                    goModFolders, fs0, cmds, running, walkQ, exitCode >>

\* executeOpenVSCodeFile(folder) up to the start of the child
ModStartOpenVSCode ==
    /\ pc = "modExecCode"
    /\ LET c == OpenVSCodeCmd(goos, folder)
       IN  StartCmd(c.prog, c.args, folder, "modCodeRunning")
    /\ UNCHANGED << command, modVars, codeStatus, args, goos, folderPath, noGit, noCode,
                    goModFolders, fs, fs0, walkQ, err, exitCode >>

\* the interpreter finds the script generated in the folder
ModScriptFound ==
    LET c == cmds[Len(cmds)]
        f == ChildResolves(c.dir, ScriptArg)
    IN  \E n \in DOMAIN fs : fs[n] = "file" /\ f = AbsRoot \o n

\* cmd.Run() of the editor script returns
ModExitOpenVSCode ==
    /\ pc = "modCodeRunning"
    /\ running
    /\ running' = FALSE
    /\ \E started \in BOOLEAN, s \in CodeStatuses :
         IF started /\ ModScriptFound
         THEN /\ codeStatus' = s
              /\ IF ScriptStatus(goos, s) = 0
                 THEN pc' = "modGit" /\ UNCHANGED err
                 ELSE Fail("Error executing open_vscode file")
         ELSE /\ UNCHANGED codeStatus
              /\ Fail("Error executing open_vscode file")
    /\ UNCHANGED << command, modVars, args, goos, folderPath, noGit, noCode,
                    goModFolders, fs, fs0, cmds, walkQ, exitCode >>

\* noGit: "Git repository initialization skipped."
ModSkipGit ==
    /\ pc = "modGit"
    /\ noGit
    /\ pc' = "done"
    /\ UNCHANGED << command, modVars, codeStatus, args, goos, folderPath, noGit, noCode,
                    goModFolders, fs, fs0, cmds, running, walkQ, err, exitCode >>

\* ModStartGitInit that starts git init and does not wait for it
ModStartGitInit_noWait ==
    /\ pc = "modGit"
    /\ ~noGit
    /\ cmds' = Append(cmds, [prog |-> "git", args |-> << <<"init">> >>,
                             dir |-> folder])
    /\ running' = TRUE
    /\ pc' = "modAdd"
    /\ UNCHANGED << command, modVars, codeStatus, args, goos, folderPath, noGit, noCode,
                    goModFolders, fs, fs0, walkQ, err, exitCode >>

\* initializeGitRepository(folder) up to the start of the child
ModStartGitInit ==
    /\ pc = "modGit"
    /\ ~noGit
    /\ StartCmd("git", << <<"init">> >>, folder, "modGitInit")
    /\ UNCHANGED << command, modVars, codeStatus, args, goos, folderPath, noGit, noCode,
                    goModFolders, fs, fs0, walkQ, err, exitCode >>

\* cmd.Run() of git init returns
ModExitGitInit ==
    /\ pc = "modGitInit"
    /\ running
    /\ running' = FALSE
    /\ \E ok \in BOOLEAN :
         IF ok
         THEN /\ fs' = With(fs, Append(FolderNode, ".git"), "dir")
              /\ pc' = "modAdd"
              /\ UNCHANGED err
         ELSE /\ Fail("Error initializing Git repository")
              /\ UNCHANGED fs
    /\ UNCHANGED << command, modVars, codeStatus, args, goos, folderPath, noGit, noCode,
                    goModFolders, fs0, cmds, walkQ, exitCode >>

\* git add . is started in the folder
ModStartGitAdd ==
    /\ pc = "modAdd"
    /\ StartCmd("git", << <<"add">>, <<".">> >>, folder, "modGitAdd")
    /\ UNCHANGED << command, modVars, codeStatus, args, goos, folderPath, noGit, noCode,
                    goModFolders, fs, fs0, walkQ, err, exitCode >>

\* ModExitGitAdd that reports the failure and goes on with the commit
ModExitGitAdd_goOn ==
    /\ pc = "modGitAdd"
    /\ running
    /\ running' = FALSE
    /\ \E ok \in BOOLEAN :
         /\ err' = IF ok THEN err ELSE "Error adding files to git"
         /\ pc' = "modCommit"
    /\ UNCHANGED << command, modVars, codeStatus, args, goos, folderPath, noGit, noCode,
                    goModFolders, fs, fs0, cmds, walkQ, exitCode >>

\* cmdAdd.Run() returns
ModExitGitAdd ==
    /\ pc = "modGitAdd"
    /\ running
    /\ running' = FALSE
    /\ \E ok \in BOOLEAN :
         IF ok THEN pc' = "modCommit" /\ UNCHANGED err
         ELSE Fail("Error adding files to git")
    /\ UNCHANGED << command, modVars, codeStatus, args, goos, folderPath, noGit, noCode,
                    goModFolders, fs, fs0, cmds, walkQ, exitCode >>

\* git commit -m init is started in the folder
ModStartGitCommit ==
    /\ pc = "modCommit"
    /\ StartCmd("git", << <<"commit">>, <<"-m">>, <<"init">> >>, folder,
                "modGitCommit")
    /\ UNCHANGED << command, modVars, codeStatus, args, goos, folderPath, noGit, noCode,
                    goModFolders, fs, fs0, walkQ, err, exitCode >>

\* cmdCommit.Run() returns
ModExitGitCommit ==
    /\ pc = "modGitCommit"
    /\ running
    /\ running' = FALSE
    /\ \E ok \in BOOLEAN :
         IF ok THEN pc' = "done" /\ UNCHANGED err
         ELSE Fail("Error committing files to git")
    /\ UNCHANGED << command, modVars, codeStatus, args, goos, folderPath, noGit, noCode,
                    goModFolders, fs, fs0, cmds, walkQ, exitCode >>

----------------------------------------------------------------------------
(* return to main *)

\* Return that turns a printed error into exit status 1
Return_failStatus ==
    /\ pc = "done"
    /\ pc' = "exit"
    /\ exitCode' = IF err = "none" THEN 0 ELSE 1
    /\ UNCHANGED << command, modVars, codeStatus, args, goos, folderPath, noGit, noCode, goModFolders, fs,
                    fs0, cmds, running, walkQ, err >>

\* generateWorkCommand / generateModuleCommand returns to main, main returns:
\* exit status 0
Return ==
    /\ pc = "done"
    /\ pc' = "exit"
    /\ exitCode' = 0
    /\ UNCHANGED << command, modVars, codeStatus, args, goos, folderPath, noGit, noCode, goModFolders, fs,
                    fs0, cmds, running, walkQ, err >>

----------------------------------------------------------------------------

Next ==
    \/ Main
    \/ ParseArgs
    \/ Discover
    \/ RemoveGoWork
    \/ RemoveGoWorkSum
    \/ StartGoWorkInit
    \/ ExitGoWorkInit
    \/ NoModulesFound
    \/ SkipCode
    \/ CreateOpenVSCodeFile
    \/ StartOpenVSCode
    \/ ExitOpenVSCode
    \/ SkipGit
    \/ StartGitInit
    \/ ExitGitInit
    \/ BeginSubmoduleWalk
    \/ StartSubmoduleAdd
    \/ ExitSubmoduleAdd
    \/ SubmoduleWalkError
    \/ StartGitAdd
    \/ ExitGitAdd
    \/ StartGitCommit
    \/ ExitGitCommit
    \/ ModParse
    \/ Mkdir
    \/ StartGoModInit
    \/ ExitGoModInit
    \/ CreateScripts
    \/ CreateLicenseFile
    \/ WriteMainGo
    \/ SkipMainGo
    \/ ModSkipCode
    \/ ModCreateOpenVSCodeFile
    \/ ModStartOpenVSCode
    \/ ModExitOpenVSCode
    \/ ModSkipGit
    \/ ModStartGitInit
    \/ ModExitGitInit
    \/ ModStartGitAdd
    \/ ModExitGitAdd
    \/ ModStartGitCommit
    \/ ModExitGitCommit
    \/ Return

Spec == Init /\ [][Next]_vars

TypeOK ==
    /\ pc \in { "main", "parse", "walk", "rmWork", "rmSum", "assemble", "goWorkInit",
                "code", "execCode", "codeRunning", "git", "gitInit",
                "addGitSubmodules", "subWalk", "submoduleAdd", "gitAdd",
                "commit", "gitCommit", "done", "exit",
                "modParse", "mkdir", "goModInit", "goModInitRun", "scripts",
                "license", "mainGo", "modCode", "modExecCode",
                "modCodeRunning", "modGit", "modGitInit", "modAdd",
                "modGitAdd", "modCommit", "modGitCommit" }
    /\ noGit \in BOOLEAN /\ noCode \in BOOLEAN /\ running \in BOOLEAN
    /\ noMain \in BOOLEAN
    /\ exitCode \in { -1, 0, 1, 2 }
    /\ codeStatus \in { -1 } \cup CodeStatuses

----------------------------------------------------------------------------
(* Vocabulary of the properties *)

ErrWalk == "Error walking the directory"
ErrGoWorkInit == "Error running 'go work init'"
ErrSubmodules == "Error adding Git submodules"

\* the walk of generateWorkCommand has returned nil
DiscoveryDone ==
    /\ command = "work"
    /\ pc \notin { "main", "parse", "walk" }
    /\ err \notin { ErrWalk, "flag" }

\* the decision on len(goModFolders) has been taken
PastAssemble ==
    DiscoveryDone /\ pc \notin { "rmWork", "rmSum", "assemble" }
        /\ err \notin { "Error deleting go.work file",
                        "Error deleting go.work.sum file" }

\* regular files named go.mod in the tree the command started on
GoModFiles == { n \in DOMAIN fs0 : Base(n) = "go.mod" /\ fs0[n] = "file" }

\* directory of the entry n, written relative to the root
ParentRef(n) == IF Len(n) = 1 THEN Dot ELSE SubSeq(n, 1, Len(n) - 1)

GoCmds ==
    { i \in 1..Len(cmds) : cmds[i].prog = "go" /\ cmds[i].args[1] = <<"work">> }

GitCmds(sub) ==
    { i \in 1..Len(cmds) : cmds[i].prog = "git" /\ cmds[i].args[1] = << sub >> }

\* nested .git directories of a tree
GitDirs(tree) == { n \in DOMAIN tree : Base(n) = ".git" /\ tree[n] = "dir" }

Created == (DOMAIN fs) \ (DOMAIN fs0)

OpenVSCodeFiles == { << OpenVSCodeBatchFile >>, << OpenVSCodeShellFile >> }

----------------------------------------------------------------------------
(* Properties *)

\* C1: while `go work init` runs (from its start to its exit) neither a
\* go.work nor a go.work.sum is present in the root: whatever was there when
\* the command started has been removed before the child was started.
C1_RemovedBeforeInit ==
    pc = "goWorkInit" => ~Exists(fs, GoWork) /\ ~Exists(fs, GoWorkSum)

C1_Witness ==
    /\ pc = "goWorkInit"
    /\ running
    /\ Exists(fs0, GoWork)
    /\ Exists(fs0, GoWorkSum)

\* C2: once discovery has succeeded, goModFolders holds exactly one entry
\* per regular file named go.mod of the tree, equal to the directory of that
\* file relative to the root, and nothing else.
C2_OneEntryPerGoModFile ==
    DiscoveryDone =>
        /\ Len(goModFolders) = Cardinality(GoModFiles)
        /\ \A f \in GoModFiles :
              Cardinality({ i \in 1..Len(goModFolders) :
                              goModFolders[i] = ParentRef(f) }) = 1

\* C3: once discovery has succeeded, every entry of goModFolders comes from
\* a regular file named go.mod; a directory named go.mod contributes none.
C3_OnlyRegularFiles ==
    DiscoveryDone =>
        \A i \in 1..Len(goModFolders) :
            \E f \in GoModFiles : goModFolders[i] = ParentRef(f)

\* the tree of the end-to-end scenario: the entries named go.mod are the
\* regular files app1/go.mod and ext/lib1/go.mod (and the root folder is not
\* itself named go.mod)
AppAndLibTree ==
    /\ GoModFiles = { <<"app1", "go.mod">>, <<"ext", "lib1", "go.mod">> }
    /\ { n \in DOMAIN fs0 : Base(n) = "go.mod" } = GoModFiles
    /\ Base(folderPath) # "go.mod"

\* C4: every `go work init` is started in the root folder with exactly the
\* discovered folders as arguments, in the order of discovery and without
\* duplicates; for a tree whose go.mod files are app1/go.mod and
\* ext/lib1/go.mod the arguments are app1, ext/lib1.
C4_InitArguments ==
    \A i \in GoCmds :
        /\ cmds[i].args = << <<"work">>, <<"init">> >> \o goModFolders
        /\ cmds[i].dir = folderPath
        /\ \A j, k \in 1..Len(goModFolders) :
              goModFolders[j] = goModFolders[k] => j = k
        /\ AppAndLibTree
           => cmds[i].args =
                << <<"work">>, <<"init">>, <<"app1">>, <<"ext", "lib1">> >>

C4_Witness ==
    /\ GoCmds # {}
    /\ AppAndLibTree

\* C5: with an empty goModFolders no `go work init` is ever started, and the
\* step taken at the decision leads, without an error, to the same place
\* (the editor stage) a successful `go work init` leads to.
C5_NoModulesContinues ==
    [][ /\ (Len(goModFolders) = 0 => GoCmds = {})
        /\ (pc = "assemble" /\ Len(goModFolders) = 0)
              => (pc' = "code" /\ err' = "none" /\ cmds' = cmds)
        /\ (pc = "goWorkInit" /\ err' = "none") => pc' = "code" ]_vars

C5_Witness ==
    /\ pc = "code"
    /\ DiscoveryDone
    /\ Len(goModFolders) = 0
    /\ err = "none"

\* C6 as stated: with no go.mod in the tree, nothing is written: after the
\* "no modules found" outcome the root holds no file it did not hold before.
C6_NoFileWrites ==
    (PastAssemble /\ Len(goModFolders) = 0) => Created = {}

\* C6 amended: with no go.mod in the tree, nothing has been written when the
\* "no modules found" outcome is reached, and afterwards only the later
\* stages write: open_vscode.bat / open_vscode.sh unless nocode is given,
\* .git and .gitmodules (through git) unless nogit is given.
C6_WritesOnlyByLaterStages ==
    (PastAssemble /\ Len(goModFolders) = 0) =>
        /\ pc = "code" => Created = {}
        /\ Created \subseteq
              (IF noCode THEN {} ELSE OpenVSCodeFiles)
                  \cup (IF noGit THEN {} ELSE { <<".git">>, <<".gitmodules">> })

C6_Witness ==
    /\ pc = "done"
    /\ err = "none"
    /\ DiscoveryDone
    /\ Len(goModFolders) = 0
    /\ noCode /\ noGit
    /\ Created = {}

\* C7: no `git submodule add` names the root: its relative-path argument is
\* a directory strictly below the root; with .git in the root and one nested
\* checkout in ext/lib1, the completed walk has started exactly one
\* `git submodule add`, for ext/lib1.
C7_RootNeverSubmodule ==
    /\ \A i \in GitCmds("submodule") :
          LET rel == cmds[i].args[4]
          IN  /\ rel # Dot
              /\ rel[1] \notin { "..", "/" }
              /\ rel \in DOMAIN fs /\ fs[rel] = "dir"
    /\ ( /\ pc \in { "gitAdd", "commit", "gitCommit" }
         /\ GitDirs(fs) = { <<".git">>, <<"ext", "lib1", ".git">> } )
       => /\ Cardinality(GitCmds("submodule")) = 1
          /\ \A i \in GitCmds("submodule") :
                cmds[i].args[4] = <<"ext", "lib1">>

C7_Witness ==
    /\ pc = "gitAdd"
    /\ GitDirs(fs) = { <<".git">>, <<"ext", "lib1", ".git">> }
    /\ GitCmds("submodule") # {}

\* C8: every `git submodule add` runs in the root folder, its first argument
\* is the absolute path of the nested checkout and its second argument the
\* path of that checkout relative to the root.
C8_AbsoluteAndRelative ==
    \A i \in GitCmds("submodule") :
        /\ cmds[i].dir = folderPath
        /\ Append(cmds[i].args[4], ".git") \in GitDirs(fs)
        /\ IsAbs(cmds[i].args[3])
        /\ cmds[i].args[3] = AbsRoot \o cmds[i].args[4]

\* C9: after a failed `git submodule add` the command has ended: the nested
\* checkouts the walk had not reached are never handed to git, and neither
\* `git add` nor `git commit` is started.
C9_FirstFailureAborts ==
    err = ErrSubmodules =>
        /\ pc \in { "done", "exit" }
        /\ ~running
        /\ GitCmds("add") = {} /\ GitCmds("commit") = {}
        /\ \A k \in 1..Len(walkQ) :
              IsSubmodule(fs, folderPath, walkQ[k]) =>
                  \A i \in GitCmds("submodule") :
                      cmds[i].args # SubmoduleArgs(folderPath, walkQ[k])

C9_Witness ==
    /\ err = ErrSubmodules
    /\ pc = "done"
    /\ GitCmds("submodule") # {}
    /\ \E k \in 1..Len(walkQ) : IsSubmodule(fs, folderPath, walkQ[k])

\* C10: after a failed `go work init` the command has ended with that child
\* as the only command ever started, and no file has been created.
C10_InitFailureEnds ==
    err = ErrGoWorkInit =>
        /\ pc \in { "done", "exit" }
        /\ ~running
        /\ Len(cmds) = 1 /\ GoCmds = { 1 }
        /\ Created = {}

C10_Witness ==
    /\ err = ErrGoWorkInit
    /\ pc = "done"
    /\ ~noCode /\ ~noGit

----------------------------------------------------------------------------
(* Vocabulary of the properties: stages and command lines *)

ErrGitInit == "Error initializing Git repository"

\* executions of the open_vscode script
EditorCmds == { i \in 1..Len(cmds) : cmds[i].prog \in { "bash", "cmd" } }

AllGitCmds == { i \in 1..Len(cmds) : cmds[i].prog = "git" }

\* the stage of the work pipeline a command belongs to, in the order of the
\* code: assembling, editor launch, git init, sub-repositories, add, commit
StageOf(c) ==
    IF c.prog = "go" THEN 1
    ELSE IF c.prog \in { "bash", "cmd" } THEN 2
    ELSE IF c.args[1] = <<"init">> THEN 3
    ELSE IF c.args[1] = <<"submodule">> THEN 4
    ELSE IF c.args[1] = <<"add">> THEN 5
    ELSE 6

\* number of leading arguments flag parsing consumes as "flag value" pairs
RECURSIVE LeadingFlagLen(_)
LeadingFlagLen(a) ==
    IF Len(a) >= 2 /\ IsModFlag(a[1])
    THEN 2 + LeadingFlagLen(SubSeq(a, 3, Len(a)))
    ELSE 0

----------------------------------------------------------------------------
(* Properties, continued *)

\* C11 as stated: when neither nogit nor nocode is given, the open_vscode
\* script is created and executed only after `git init` has been started.
C11_GitBeforeEditor ==
    ( /\ command = "work"
      /\ ~noGit /\ ~noCode
      /\ (EditorCmds # {} \/ Created \cap OpenVSCodeFiles # {}) )
    => GitCmds("init") # {}

\* C11 amended: the stages of a `work` invocation run in the order
\* assembling (or no modules found), editor launch, git init, sub-repository
\* registration, git add, git commit: the commands started so far are in
\* that order, only `git submodule add` repeats, and when nocode is not
\* given the open_vscode scripts have been written and executed before any
\* git command is started.
C11_EditorBeforeGit ==
    command = "work" =>
        /\ \A i, j \in 1..Len(cmds) :
              i < j => /\ StageOf(cmds[i]) <= StageOf(cmds[j])
                       /\ StageOf(cmds[i]) = StageOf(cmds[j])
                              => StageOf(cmds[i]) = 4
        /\ (~noCode /\ AllGitCmds # {}) =>
              /\ \E e \in EditorCmds : \A g \in AllGitCmds : e < g
              /\ OpenVSCodeFiles \subseteq DOMAIN fs
        /\ (GitCmds("submodule") # {} \/ GitCmds("add") # {})
              => GitCmds("init") # {}
        /\ GitCmds("commit") # {} => GitCmds("add") # {}

C11_Witness ==
    /\ command = "work"
    /\ pc = "gitCommit"
    /\ ~noCode
    /\ GoCmds # {}
    /\ EditorCmds # {}
    /\ GitCmds("submodule") # {}

\* C12: nothing a completed stage produced is taken back: after a successful
\* `go work init` go.work stays, after the editor stage the open_vscode files
\* stay, after a successful `git init` .git stays, and of the files present
\* at the start only go.work and go.work.sum are ever removed - also when a
\* later stage has failed.
C12_NoRollback ==
    command = "work" =>
        /\ (GoCmds # {} /\ pc # "goWorkInit" /\ err # ErrGoWorkInit)
              => Exists(fs, GoWork)
        /\ EditorCmds # {} => OpenVSCodeFiles \subseteq DOMAIN fs
        /\ (GitCmds("init") # {} /\ pc # "gitInit" /\ err # ErrGitInit)
              => Exists(fs, << ".git" >>)
        /\ (DOMAIN fs0) \ { GoWork, GoWorkSum } \subseteq DOMAIN fs

C12_Witness ==
    /\ command = "work"
    /\ pc = "done"
    /\ err = ErrGitInit
    /\ GoCmds # {}
    /\ Exists(fs, GoWork)
    /\ OpenVSCodeFiles \subseteq DOMAIN fs

\* C13: after a failed walk the command has ended, nothing was deleted or
\* written, and no command was started - whatever the walk had collected.
C13_WalkErrorAborts ==
    err = ErrWalk =>
        /\ pc \in { "done", "exit" }
        /\ cmds = <<>>
        /\ fs = fs0

C13_Witness ==
    /\ err = ErrWalk
    /\ pc = "done"
    /\ Len(goModFolders) > 0
    /\ Exists(fs0, GoWork)
    /\ Exists(fs0, GoWorkSum)

\* C14: the process has exit status 1 when there is no subcommand, when the
\* subcommand is unknown and when app / lib gets no name; it has exit
\* status 0 for help, --help, -h, version, --version and -v.
C14_ExitStatus ==
    pc = "exit" =>
        /\ command \notin { "work", "app", "lib" } \cup HelpCommands
                              \cup VersionCommands
              => exitCode = 1
        /\ (command \in { "app", "lib" } /\ LeadingFlagLen(args) = Len(args))
              => exitCode = 1
        /\ command \in HelpCommands \cup VersionCommands => exitCode = 0

C14_Witness ==
    /\ pc = "exit"
    /\ exitCode = 1
    /\ command = "build"

\* the tokens of the command line of an app / lib invocation
ArgSet == { args[i] : i \in 1..Len(args) }

\* the first positional argument of an app / lib invocation: its name
HasName == command \in { "app", "lib" } /\ LeadingFlagLen(args) < Len(args)

GivenName == args[LeadingFlagLen(args) + 1]

\* name first, then --path <path>, as in the usage text and the README
NameThenPath ==
    /\ Len(args) = 3
    /\ ~IsModFlag(args[1])
    /\ args[2] = FlagPath

\* executions of go mod init
GoModCmds ==
    { i \in 1..Len(cmds) : cmds[i].prog = "go" /\ cmds[i].args[1] = <<"mod">> }

\* the value written after --module-prefix, wherever it stands
GivenPrefix ==
    IF \E i \in 1..(Len(args) - 1) : args[i] = FlagModulePrefix
    THEN args[(CHOOSE i \in 1..(Len(args) - 1) : args[i] = FlagModulePrefix)
                 + 1]
    ELSE << "none" >>

\* the prefix the documentation gives for a --module-prefix value
DocumentedPrefix(v) ==
    IF v = << "vas" >> THEN << "github.com/muellerbbm-vas/" >>
    ELSE IF v = << "slb" >> THEN << "github.com/mbbm-slb/" >>
    ELSE IF v = << "none" >> THEN << >>
    ELSE v

\* a switch written where the documentation puts the switches: after the
\* flags of `work`, after the name of `app` / `lib`
GivenSwitch(sw) ==
    \E i \in 1..Len(args) :
        /\ args[i] = sw
        /\ i > LeadingFlagLen(args) + (IF command = "work" THEN 0 ELSE 1)

\* C15: for `app <name> --path <path>` the folder of the project is
\* <path>/<name>, and every command runs in it.
C15_PathAfterName ==
    ( /\ command = "app"
      /\ NameThenPath
      /\ pc \notin { "main", "modParse" } )
    => /\ folder = JoinNode(args[3], args[1])
       /\ \A i \in 1..Len(cmds) : cmds[i].dir = JoinNode(args[3], args[1])

\* C16: `lib mylib --module-prefix vas` runs
\* `go mod init github.com/muellerbbm-vas/mylib`.
C16_PrefixAfterName ==
    ( /\ command = "lib"
      /\ args = << << "mylib" >>, FlagModulePrefix, << "vas" >> >> )
    => \A i \in GoModCmds :
          cmds[i].args = << <<"mod">>, <<"init">>,
                            << "github.com/muellerbbm-vas/", "mylib" >> >>

\* C17: the module name handed to `go mod init` is the documented prefix of
\* the --module-prefix value (empty when the flag is absent) followed by the
\* name.
C17_ModuleName ==
    HasName =>
        \A i \in GoModCmds :
            cmds[i].args[3] = DocumentedPrefix(GivenPrefix) \o GivenName

\* C18: when the main.go stage is over, main.go is in the folder exactly if
\* the command is `app` and nomain is not among the arguments.
C18_MainGoIffAppWithoutNoMain ==
    ( /\ command \in { "app", "lib" }
      /\ pc \in { "modCode", "modExecCode", "modCodeRunning", "modGit" } )
    => ( Exists(fs, Append(FolderNode, "main.go"))
           <=> (command = "app" /\ NoMainArg \notin ArgSet) )

\* C19: after a successful `app <name>` without switches the folder holds
\* go.mod, main.go, build.bat, build.sh, analyze.bat, analyze.sh,
\* golangci.yml, golangci_win.yml, open_vscode.bat and open_vscode.sh.
C19_FilesOfApp ==
    ( /\ command = "app"
      /\ Len(args) = 1
      /\ pc = "done"
      /\ err = "none" )
    => \A f \in { "go.mod", "main.go", "build.bat", "build.sh",
                  "analyze.bat", "analyze.sh", "golangci.yml",
                  "golangci_win.yml", "open_vscode.bat", "open_vscode.sh" } :
          Exists(fs, Append(FolderNode, f))

\* C20: with nogit no git command is ever started; with nocode no
\* open_vscode file is written and no editor script is executed; and a
\* command that ended without error has executed the editor script unless
\* nocode was given and has run `git init` unless nogit was given.
C20_SwitchesSkipTheirStage ==
    command \in { "work", "app", "lib" } =>
        /\ GivenSwitch(NoGitArg) => AllGitCmds = {}
        /\ GivenSwitch(NoCodeArg) =>
              /\ EditorCmds = {}
              /\ { n \in Created :
                     Base(n) \in { OpenVSCodeBatchFile, OpenVSCodeShellFile } }
                 = {}
        /\ ( /\ pc = "done" /\ err = "none"
             /\ command = "work" => Len(goModFolders) > 0 )
           => /\ ~GivenSwitch(NoCodeArg) => EditorCmds # {}
              /\ ~GivenSwitch(NoGitArg) => GitCmds("init") # {}

C20_Witness ==
    /\ command = "work"
    /\ pc = "done"
    /\ err = "none"
    /\ args = << NoGitArg, NoCodeArg >>
    /\ GoCmds # {}
    /\ AllGitCmds = {}
    /\ EditorCmds = {}

ErrGitAdd == "Error adding files to git"

ErrGitCommit == "Error committing files to git"

\* the folder the invocation works on: the root of `work`, the project
\* folder of `app` / `lib`
TargetFolder == IF command = "work" THEN folderPath ELSE folder

\* the nested checkouts of the root: .git directories below the root folder
NestedCheckouts == { n \in GitDirs(fs) : Len(n) >= 2 }

----------------------------------------------------------------------------
(* Two invocations in succession *)

\* `work` is invoked a second time, with the same command line, on the tree
\* the first invocation left, after the first one generated its go.work
RunAgain ==
    /\ pc = "exit"
    /\ command = "work"
    /\ Cardinality(GoCmds) = 1
    /\ err # ErrGoWorkInit
    /\ pc' = "main"
    /\ fs0' = fs
    /\ folderPath' = <<>>
    /\ noGit' = FALSE
    /\ noCode' = FALSE
    /\ goModFolders' = <<>>
    /\ walkQ' = <<>>
    /\ err' = "none"
    /\ exitCode' = -1
    /\ codeStatus' = -1
    /\ UNCHANGED << command, modVars, args, goos, fs, cmds, running >>

NextTwice == Next \/ RunAgain

SpecTwice == Init /\ [][NextTwice]_vars

\* C22: the second of two successive `work` invocations on the same root
\* finds the modules the first one found, deletes the go.work of the first
\* one before `go work init` starts, and starts `go work init` in the same
\* directory with the same argument list, so that a deterministic
\* `go work init` writes the same go.work again.
C22_Idempotent ==
    /\ \A i, j \in GoCmds :
          cmds[i].args = cmds[j].args /\ cmds[i].dir = cmds[j].dir
    /\ (GoCmds # {} /\ pc = "assemble") =>
          \A i \in GoCmds : cmds[i].args = GoWorkInitArgs(goModFolders)
    /\ (Cardinality(GoCmds) = 2 /\ pc = "goWorkInit") => ~Exists(fs, GoWork)
    /\ (Cardinality(GoCmds) = 2 /\ pc # "goWorkInit" /\ err # ErrGoWorkInit)
          => Exists(fs, GoWork)

C22_Witness ==
    /\ Cardinality(GoCmds) = 2
    /\ pc = "exit"
    /\ err = "none"
    /\ Exists(fs, GoWork)
    /\ AllGitCmds # {}

----------------------------------------------------------------------------
(* Properties, continued *)

ErrCreateCode == "Error creating open_vscode file"

ErrScripts == "Error creating analyze scripts"

\* the node of the target folder in the tree
TargetNode == IF command = "work" THEN << >> ELSE FolderNode

\* no command line is started twice
StartedAtMostOnce ==
    \A i, j \in 1..Len(cmds) : i < j => cmds[i] # cmds[j]

\* C23 as stated, for the files of one stage: when the write of the first
\* file of a stage has failed (open_vscode.bat, build.bat), no further file
\* is written - neither open_vscode.sh nor any other script.
C23_NoWriteAfterFailure ==
    /\ StartedAtMostOnce
    /\ err # "none" => ~running
    /\ ( /\ err = ErrCreateCode
         /\ ~Exists(fs, Append(TargetNode, OpenVSCodeBatchFile)) )
       => Append(TargetNode, OpenVSCodeShellFile) \notin Created
    /\ ( /\ err = ErrScripts
         /\ ~Exists(fs, Append(TargetNode, "build.bat")) )
       => \A f \in ScriptFiles : Append(TargetNode, f) \notin Created

\* C23 amended: no command line is started twice, and once a stage has
\* failed (an error was printed) no child is running and no later step
\* starts a command, writes or removes a file, or replaces the error; the
\* files of the failing stage itself are all attempted in that same step.
C23_FailureIsTerminal ==
    [][ /\ StartedAtMostOnce'
        /\ err # "none" =>
              /\ ~running
              /\ cmds' = cmds
              /\ fs' = fs
              /\ err' = err
              /\ pc' = "exit" ]_vars

C23_Witness ==
    /\ err = ErrCreateCode
    /\ pc = "exit"
    /\ ~Exists(fs, Append(TargetNode, OpenVSCodeBatchFile))
    /\ Append(TargetNode, OpenVSCodeShellFile) \in Created
    /\ GoCmds # {}

ErrExecCode == "Error executing open_vscode file"

\* C24: the editor script is executed at most once, and when the script ran
\* the editor stage has not failed, whatever status `code .` ended with: the
\* invocation went on to the git stage.
C24_EditorBestEffort ==
    /\ Cardinality(EditorCmds) <= 1
    /\ codeStatus # -1 =>
          /\ EditorCmds # {}
          /\ err # ErrExecCode
          /\ pc \notin { "code", "execCode", "codeRunning",
                         "modCode", "modExecCode", "modCodeRunning" }

C24_Witness ==
    /\ codeStatus = 1
    /\ goos = "linux"
    /\ command = "work"
    /\ pc = "gitCommit"
    /\ err = "none"

----------------------------------------------------------------------------
(* Termination *)

\* the positions at which a filepath.Walk is under way
WalkPcs == { "walk", "addGitSubmodules", "subWalk" }

\* a step of the tool, or the exit of a child, outside the walks
ToolStep == pc \notin WalkPcs /\ Next

\* the tool runs on as long as it has a step to take, every child process it
\* starts exits, and a walk over the (finite) directory tree comes to an end
FairSpec == Spec /\ WF_vars(ToolStep) /\ []<>(pc \notin WalkPcs)

\* C25: while a started child has not exited the only step taken is the
\* return of cmd.Run(): no command is started and nothing is written; the
\* invocation has ended only when no child is running; and when every child
\* exits the invocation ends.
C25_BlockingAndTerminating ==
    /\ [][ running => /\ ~running'
                      /\ cmds' = cmds
                      /\ DOMAIN fs \subseteq DOMAIN fs' ]_vars
    /\ [](pc \in { "done", "exit" } => ~running)
    /\ <>(pc = "exit")

C25_Witness ==
    /\ command = "app"
    /\ pc = "exit"
    /\ err = "none"
    /\ Len(cmds) = 5
    /\ ~running

----------------------------------------------------------------------------
(* Properties, continued *)

\* the absolute form of a path of the tool, whose working directory is Cwd
AbsOf(p) == IF IsAbs(p) THEN p ELSE IF p = Dot THEN Cwd ELSE Cwd \o p

\* the script executeOpenVSCodeFile means to run
GeneratedScript ==
    Append(AbsOf(TargetFolder),
           IF goos = "windows" THEN OpenVSCodeBatchFile
           ELSE OpenVSCodeShellFile)

\* C26: while the editor script runs, the script path handed to bash / cmd,
\* resolved against the working directory of the child, is the open_vscode
\* script generated in the target folder.
C26_ExecutesGeneratedScript ==
    pc \in { "codeRunning", "modCodeRunning" } =>
        ChildResolves(cmds[Len(cmds)].dir, ScriptArg) = GeneratedScript

\* C27: once discovery has succeeded and the two removal steps are over
\* without error, neither the go.work nor the go.work.sum that was there at
\* the start exists any more - with zero modules found the root ends with no
\* go.work at all - and go.work.sum is removed also when there was no
\* go.work.
C27_DeletionUnconditional ==
    ( /\ command = "work"
      /\ pc \notin { "main", "parse", "walk", "rmWork", "rmSum" }
      /\ err \notin { "flag", ErrWalk, "Error deleting go.work file",
                      "Error deleting go.work.sum file" } )
    => /\ ~Exists(fs, GoWorkSum)
       /\ Len(goModFolders) = 0 => ~Exists(fs, GoWork)
       /\ Exists(fs, GoWork) => GoCmds # {}

C27_Witness ==
    /\ command = "work"
    /\ pc = "done"
    /\ err = "none"
    /\ Len(goModFolders) = 0
    /\ Exists(fs0, GoWork)
    /\ ~Exists(fs, GoWork)

\* the other case of C27: a go.work.sum without a go.work has been removed
C27_WitnessSumAlone ==
    /\ command = "work"
    /\ pc = "assemble"
    /\ ~Exists(fs0, GoWork)
    /\ Exists(fs0, GoWorkSum)
    /\ ~Exists(fs, GoWorkSum)

ErrGoModInit == "Error running 'go mod init'"

\* the messages of the failing pipeline stages
StageErrors ==
    { ErrWalk, "Error deleting go.work file", "Error deleting go.work.sum file",
      ErrGoWorkInit, ErrCreateCode, ErrExecCode, ErrGitInit, ErrSubmodules,
      ErrGitAdd, ErrGitCommit, "Error creating folder", ErrGoModInit,
      ErrScripts, "Error creating LICENSE file", "Error writing main.go" }

\* C28: a process that ended with a status other than 0 never began its
\* pipeline (no file touched, no command started, no stage error printed),
\* and a process that ended after the failure of a stage has status 0.
C28_StageFailuresExitZero ==
    pc = "exit" =>
        /\ exitCode # 0 =>
              /\ cmds = <<>>
              /\ fs = fs0
              /\ err \notin StageErrors
              /\ goModFolders = <<>>
        /\ err \in StageErrors => exitCode = 0

C28_Witness ==
    /\ pc = "exit"
    /\ err = ErrGoWorkInit
    /\ exitCode = 0

\* C29: app / lib without a positional name ends with status 1 and has
\* created no directory, written no file and started no command.
C29_NoNameNoEffect ==
    ( /\ command \in { "app", "lib" }
      /\ LeadingFlagLen(args) = Len(args) )
    => /\ pc \in { "main", "modParse", "exit" }
       /\ fs = fs0
       /\ cmds = <<>>
       /\ pc = "exit" => exitCode = 1

C29_Witness ==
    /\ command = "lib"
    /\ args = << FlagPath, << "/", "projects" >> >>
    /\ pc = "exit"
    /\ exitCode = 1
    /\ fs = fs0

\* C30: when `go mod init` failed the invocation has ended, `go mod init`
\* is the only command started, and the tree holds the project folder (with
\* the directories leading to it) and nothing else.
C30_GoModInitFailure ==
    err = ErrGoModInit =>
        /\ pc \in { "done", "exit" }
        /\ Len(cmds) = 1
        /\ AllGitCmds = {}
        /\ EditorCmds = {}
        /\ IsDirNode(fs, FolderNode)
        /\ fs = WithDirs(fs0, FolderNode)

C30_Witness ==
    /\ err = ErrGoModInit
    /\ pc = "done"
    /\ command = "app"
    /\ IsDirNode(fs, FolderNode)

====
